---- MODULE Spec2Model ----
(***************************************************************************)
(* Model of src/app.py: the Streamlit certificate generator.               *)
(*                                                                         *)
(* A Python str is a sequence of one-character strings, so that strip(),   *)
(* lower(), substring tests, replace() and re.sub() are computed character *)
(* by character.  A character is one of U+0000..U+00FF, the characters a   *)
(* string of this module can hold.  A spreadsheet cell is a record         *)
(* [na, s]: na is what pd.isna() answers for it, s is the text str() gives *)
(* for it.                                                                 *)
(***************************************************************************)
EXTENDS Integers, Sequences, FiniteSets, TLC

\* Longest participant name drawn by the safe-name specification.
MaxLen == 3

\* Most rows of an uploaded participant list.
MaxRows == 2

(***************************************************************************)
(* Python string primitives                                                *)
(***************************************************************************)

\* The cased characters: A-Z and the capital letters of U+00C0..U+00DE.
UpperChars == <<"A","B","C","D","E","F","G","H","I","J","K","L","M",
                "N","O","P","Q","R","S","T","U","V","W","X","Y","Z",
                "À","Á","Â","Ã","Ä","Å","Æ","Ç","È","É","Ê","Ë","Ì",
                "Í","Î","Ï","Ð","Ñ","Ò","Ó","Ô","Õ","Ö","Ø","Ù","Ú",
                "Û","Ü","Ý","Þ">>

LowerChars == <<"a","b","c","d","e","f","g","h","i","j","k","l","m",
                "n","o","p","q","r","s","t","u","v","w","x","y","z",
                "à","á","â","ã","ä","å","æ","ç","è","é","ê","ë","ì",
                "í","î","ï","ð","ñ","ò","ó","ô","õ","ö","ø","ù","ú",
                "û","ü","ý","þ">>

\* str.lower() on one character.
LowerChar(c) ==
    IF \E k \in 1..Len(UpperChars) : UpperChars[k] = c
    THEN LowerChars[CHOOSE k \in 1..Len(UpperChars) : UpperChars[k] = c]
    ELSE c

\* str.lower()
Lower(s) == [k \in 1..Len(s) |-> LowerChar(s[k])]

\* `sub in s`
Contains(s, sub) ==
    \E k \in 0..(Len(s) - Len(sub)) : SubSeq(s, k + 1, k + Len(sub)) = sub

\* The characters str.strip() removes (str.isspace): space, U+0009..U+000D,
\* U+001C..U+001F, U+0085 and U+00A0.
Whitespace == {" ", "\t", "\n", "", "\f", "\r", "", "", "", "", "", " "}

\* str.strip(): drop leading and trailing whitespace, keep the inside.
strip(s) ==
    LET keep == {k \in 1..Len(s) : s[k] \notin Whitespace}
    IN  IF keep = {} THEN <<>>
        ELSE LET lo == CHOOSE k \in keep : \A j \in keep : k <= j
                 hi == CHOOSE k \in keep : \A j \in keep : j <= k
             IN  SubSeq(s, lo, hi)

\* str.replace(" ", "_"): only U+0020 is replaced.
ReplaceSpaces(s) == [k \in 1..Len(s) |-> IF s[k] = " " THEN "_" ELSE s[k]]

\* The character class of re.sub(r'[<>:"/\\|?*]', "_", ...).
ReservedChars == {"<", ">", ":", "\"", "/", "\\", "|", "?", "*"}

\* re.sub(r'[<>:"/\\|?*]', "_", s)
SubReserved(s) ==
    [k \in 1..Len(s) |-> IF s[k] \in ReservedChars THEN "_" ELSE s[k]]

\* safe_name = re.sub(r'[<>:"/\\|?*]', "_", student.replace(" ", "_"))
safe_name(student) == SubReserved(ReplaceSpaces(student))

Digits == <<"0","1","2","3","4","5","6","7","8","9">>

\* str(n) for n >= 0, as a character sequence.
RECURSIVE Decimal(_)
Decimal(n) ==
    IF n < 10 THEN <<Digits[n + 1]>>
    ELSE Append(Decimal(n \div 10), Digits[(n % 10) + 1])

\* Width of the zero padding in f"{idx+1:03d}".
PadWidth == 3

\* Left-padded with "0" to width w, never truncated.
RECURSIVE ZeroPad(_, _)
ZeroPad(d, w) == IF Len(d) >= w THEN d ELSE ZeroPad(<<"0">> \o d, w)

\* f"{n:03d}": the sign counts in the width.
Format03d(n) ==
    IF n < 0 THEN <<"-">> \o ZeroPad(Decimal(0 - n), PadWidth - 1)
    ELSE ZeroPad(Decimal(n), PadWidth)

Suffix == <<"_","c","e","r","t","i","f","i","c","a","t","e",".","p","d","f">>

\* filename = f"{idx+1:03d}_{safe_name}_certificate.pdf", for an integer idx.
filename(idx, student) ==
    Format03d(idx + 1) \o <<"_">> \o safe_name(student) \o Suffix

(***************************************************************************)
(* Spreadsheet values and column labels                                    *)
(***************************************************************************)

\* A missing value: pd.isna(cell) is True.
NaN == [na |-> TRUE, s |-> <<>>]

\* A text value.
Text(s) == [na |-> FALSE, s |-> s]

\* An index label of the frame, the idx of iterrows(): an integer n, a float
\* n + 0.5, or a string.
IntLabel(n)   == [kind |-> "int", n |-> n]
FloatLabel(n) == [kind |-> "float", n |-> n]
StrLabel      == [kind |-> "str", n |-> 0]

\* idx + 1 (lines 194, 249, 256) raises TypeError for a string.
CanAddOne(idx) == idx.kind # "str"

\* idx + 1 for a number.
PlusOne(idx) == [idx EXCEPT !.n = @ + 1]

\* f"{idx+1:03d}" raises ValueError for a float.
CanFormat(idx) == idx.kind = "int"

\* Python's None for school_col; no column label equals it, a label being a
\* sequence of single characters.
None == <<"<None>">>

H_StudentName == <<"S","t","u","d","e","n","t"," ","N","a","m","e">>
H_School      == <<"S","c","h","o","o","l">>
H_FullName    == <<"F","u","l","l"," ","N","a","m","e">>
H_Organization == <<"O","r","g","a","n","i","z","a","t","i","o","n">>
H_SchoolName  == <<"S","c","h","o","o","l"," ","N","a","m","e">>
H_Age         == <<"A","g","e">>
H_Institution == <<"I","N","S","T","I","T","U","T","I","O","N">>
\* The label pandas gives a column whose header cell is empty.
H_Unnamed0    == <<"U","n","n","a","m","e","d",":"," ","0">>

K_student     == <<"s","t","u","d","e","n","t">>
K_name        == <<"n","a","m","e">>
K_school      == <<"s","c","h","o","o","l">>
K_institution == <<"i","n","s","t","i","t","u","t","i","o","n">>

\* if participants.columns[0] == "" or ... is None: participants.columns =
\* ["Student Name"].  (With more than one column the assignment raises; pandas
\* never yields an empty first label, so the header lists below have none.)
RenameColumns(columns) ==
    IF columns[1] = <<>> /\ Len(columns) = 1 THEN <<H_StudentName>> ELSE columns

IsStudentHeader(c) == Contains(Lower(c), K_student) \/ Contains(Lower(c), K_name)

IsSchoolHeader(c) == Contains(Lower(c), K_school) \/ Contains(Lower(c), K_institution)

\* The least element of a non-empty set of positions: next() takes the first.
First(hits) == CHOOSE k \in hits : \A j \in hits : k <= j

\* student_col = next((c ... "student" in c.lower() or "name" in c.lower()),
\*                    participants.columns[0])
DetectStudentCol(columns) ==
    LET hits == {k \in 1..Len(columns) : IsStudentHeader(columns[k])}
    IN  IF hits # {} THEN columns[First(hits)] ELSE columns[1]

\* school_col = next((c ... "school" in c.lower() or "institution" in c.lower()),
\*                   None if len(participants.columns) == 1 else participants.columns[1])
DetectSchoolCol(columns) ==
    LET hits == {k \in 1..Len(columns) : IsSchoolHeader(columns[k])}
    IN  IF hits # {} THEN columns[First(hits)]
        ELSE IF Len(columns) = 1 THEN None ELSE columns[2]

\* row[col]: the cell under the column labelled col (labels are distinct).
RowGet(columns, row, col) == row[CHOOSE k \in 1..Len(columns) : columns[k] = col]

\* pd.isna(raw_student) or str(raw_student).strip() == ""
IsBlankName(raw_student) == raw_student.na \/ strip(raw_student.s) = <<>>

\* Variant: the cell is not tested with pd.isna(), and str(nan) is "nan".
SchoolText_NoIsna(columns, row, school_col) ==
    IF school_col = None THEN <<>>
    ELSE LET raw_school == RowGet(columns, row, school_col)
         IN  IF raw_school.na THEN <<"n","a","n">> ELSE strip(raw_school.s)

\* school = "" unless school_col is not None and the cell is present and
\* non-empty after strip(), then the stripped text.
SchoolText(columns, row, school_col) ==
    IF school_col = None THEN <<>>
    ELSE LET raw_school == RowGet(columns, row, school_col)
         IN  IF ~raw_school.na /\ strip(raw_school.s) # <<>>
             THEN strip(raw_school.s)
             ELSE <<>>

student_x == 427
student_y == 200
school_x == 306
school_y == 550

\* The drawCentredString calls on the overlay canvas: the name always, the
\* school only `if school:`.
OverlayDraws(student, school) ==
    <<[x |-> student_x, y |-> student_y, text |-> student]>>
    \o (IF school # <<>>
        THEN <<[x |-> school_x, y |-> school_y, text |-> school]>>
        ELSE <<>>)

\* The statements of the try block that can raise after the name is validated;
\* "none" is a row that raises nowhere.  zipf.writestr (line 251) can raise in
\* two places: "write" before the entry is opened, "write_data" in the write
\* of the data, after which closing the entry still adds it to the archive.
Faults ==
    {"none", "template", "overlay", "merge", "serialize", "write", "write_data"}

\* The body of `for idx, row in participants.iterrows()` for an idx that line
\* 194 can show: what it adds to success and fail, the entries it writes to
\* the zip, and what status_placeholder shows afterwards.  A float idx
\* reaches line 249 and raises there, inside the try.
RowResult(columns, row, idx, student_col, school_col, fault) ==
    LET raw_student == RowGet(columns, row, student_col)
        info == [kind |-> "info", row |-> PlusOne(idx)]
        warning == [kind |-> "warning", row |-> PlusOne(idx)]
    IN  IF IsBlankName(raw_student)
        THEN [success |-> 0, fail |-> 1, entries |-> <<>>, status |-> info]
        ELSE LET student == strip(raw_student.s)
                 school  == SchoolText(columns, row, school_col)
             IN  IF ~CanFormat(idx)
                 THEN [success |-> 0, fail |-> 1, entries |-> <<>>,
                       status |-> warning]
                 ELSE LET entry == [filename |-> filename(idx.n, student),
                                    row |-> idx.n + 1,
                                    draws |-> OverlayDraws(student, school)]
                      IN  IF fault = "none"
                          THEN [success |-> 1, fail |-> 0,
                                entries |-> <<entry>>, status |-> info]
                          ELSE [success |-> 0, fail |-> 1,
                                entries |-> IF fault = "write_data"
                                            THEN <<entry>> ELSE <<>>,
                                status |-> warning]

(***************************************************************************)
(* The details form and the Generations insert                             *)
(***************************************************************************)

FieldNames == {"name", "school_name", "school_number", "contact_number", "ic_number"}

\* st.session_state.user_data = {} at session start.
EmptyData == [k \in FieldNames |-> <<>>]

\* Variant: the last field is not validated.
inputs_valid_NoIc(fields) ==
    \A k \in FieldNames \ {"ic_number"} : strip(fields[k]) # <<>>

\* inputs_valid = all([user_name.strip(), ..., user_ic_number.strip()])
inputs_valid(fields) == \A k \in FieldNames : strip(fields[k]) # <<>>

\* user_data = {"name": user_name.strip(), ...}; the "timestamp" entry is the
\* wall clock and is left out.
StrippedFields(fields) == [k \in FieldNames |-> strip(fields[k])]

\* What supabase.table("Generations").insert(user_data).execute() can do:
\* return data, return an error, return neither, or raise.
InsertOutcomes == {"data", "error", "empty", "exception"}

\* Variant: a failed insert leaves details_submitted as it was, so that the
\* section below the form stays open.
SubmitResult_Lenient(ds, ud, fields, outcome) ==
    IF inputs_valid(fields)
    THEN IF outcome = "data"
         THEN [details_submitted |-> TRUE, user_data |-> StrippedFields(fields),
               message |-> "stored"]
         ELSE [details_submitted |-> ds, user_data |-> ud, message |-> outcome]
    ELSE [details_submitted |-> FALSE, user_data |-> ud, message |-> "invalid"]

\* `if submitted:` ... the session state after the form is handled, and the
\* message shown (st.success or one of the four st.error texts).
SubmitResult(ds, ud, fields, outcome) ==
    IF inputs_valid(fields)
    THEN IF outcome = "data"
         THEN [details_submitted |-> TRUE, user_data |-> StrippedFields(fields),
               message |-> "stored"]
         ELSE [details_submitted |-> FALSE, user_data |-> ud,
               message |-> outcome]
    ELSE [details_submitted |-> FALSE, user_data |-> ud, message |-> "invalid"]

\* The insert is called only for a form that passed validation.
InsertResults(fields) == IF inputs_valid(fields) THEN InsertOutcomes ELSE {"notcalled"}

\* `if st.session_state.details_submitted:` guards the upload/generate section.
MainLogicGate(ds) == ds

(***************************************************************************)
(* Inputs                                                                  *)
(***************************************************************************)

\* What the user may type in the form: every field filled in (padded with
\* blanks or not), or one of them left blank or whitespace-only.
FilledForms ==
    {[k \in FieldNames |-> IF k = "name" THEN n ELSE <<"z"," ">>] :
        n \in {<<"x">>, <<" ","y">>}}

FormInputs ==
    FilledForms
    \cup {[f EXCEPT ![k] = IF k = "name" THEN <<" ">> ELSE <<>>] :
            f \in {[j \in FieldNames |-> <<"x">>]}, k \in FieldNames}

\* Header rows of the uploaded lists.
HeaderLists ==
    { <<H_StudentName, H_School>>,
      <<H_FullName, H_Organization>>,
      <<H_SchoolName, H_Age>>,
      <<H_Age, H_StudentName>>,
      <<H_Unnamed0>>,
      <<H_School>> }

\* Cell values of the uploaded lists: missing, empty, whitespace-only, a plain
\* name, and a padded name with a reserved character.
Cells == {NaN, Text(<<>>), Text(<<" ">>), Text(<<"A">>), Text(<<" ","B","?"," ">>)}

\* Rows of n cells: every cell value in every column, beside plain text in the
\* other columns.
RowPool(n) ==
    {r \in [1..n -> Cells] :
        Cardinality({k \in 1..n : r[k] # Text(<<"A">>)}) <= 1}

RowsOf(n) == UNION {[1..m -> RowPool(n)] : m \in 0..MaxRows}

\* The index pd.read_csv / pd.read_excel give a list whose rows are as wide as
\* its header: 0, 1, 2, ...
RangeIndex(m) == [k \in 1..m |-> IntLabel(k - 1)]

\* The indexes read_csv gives a list whose rows have one field more than the
\* header, the first field of each row being its label: the same integer in
\* every row, decreasing integers, strings, floats.
FirstFieldIndexes(m) ==
    IF m = 0 THEN {}
    ELSE {[k \in 1..m |-> IntLabel(4)],
          [k \in 1..m |-> IntLabel(10 - k)],
          [k \in 1..m |-> StrLabel],
          [k \in 1..m |-> FloatLabel(k)]}

\* The indexes of the uploaded lists with header h and m rows.
IndexesOf(h, m) ==
    {RangeIndex(m)}
    \cup (IF h = <<H_StudentName, H_School>> THEN FirstFieldIndexes(m) ELSE {})

NoFile == [present |-> FALSE, columns |-> <<>>, rows |-> <<>>, index |-> <<>>]

Files ==
    UNION {UNION {{[present |-> TRUE, columns |-> h, rows |-> r, index |-> x] :
                     x \in IndexesOf(h, Len(r))} : r \in RowsOf(Len(h))} :
            h \in HeaderLists}

(***************************************************************************)
(* State                                                                   *)
(***************************************************************************)

VARIABLES
    details_submitted,  \* st.session_state.details_submitted
    user_data,          \* st.session_state.user_data
    last_submit,        \* the latest form submission: the fields typed blank,
                        \* what the insert did, the message shown
    excel_file,         \* the file_uploader's file, parsed into participants
    student_col,        \* the detected name column
    school_col,         \* the detected school column, or None
    pc,                 \* "idle", "loop" (inside the for loop), "summary",
                        \* "crashed" (the run ended by an uncaught exception)
    i,                  \* rows iterrows() has yielded in this run
    success,
    fail,
    zip,                \* the entries written to zipf, in order
    status,             \* what status_placeholder shows
    arg,                \* input of the safe-name specification
    res                 \* its result

vars == <<details_submitted, user_data, last_submit, excel_file, student_col,
          school_col, pc, i, success, fail, zip, status, arg, res>>

session == <<details_submitted, user_data, last_submit>>
upload  == <<excel_file, student_col, school_col>>
run     == <<pc, i, success, fail, zip, status>>
fn      == <<arg, res>>

EmptyStatus == [kind |-> "empty", row |-> IntLabel(0)]

\* The locals of a script run that has not pressed the generate button.
NoRun ==
    /\ pc' = "idle"
    /\ i' = 0
    /\ success' = 0
    /\ fail' = 0
    /\ zip' = <<>>
    /\ status' = EmptyStatus

\* No form has been submitted in this session.
NoSubmit == [blank |-> {}, insert |-> "none", message |-> "none"]

Init ==
    /\ details_submitted = FALSE
    /\ user_data = EmptyData
    /\ last_submit = NoSubmit
    /\ excel_file = NoFile
    /\ student_col = None
    /\ school_col = None
    /\ pc = "idle"
    /\ i = 0
    /\ success = 0
    /\ fail = 0
    /\ zip = <<>>
    /\ status = EmptyStatus
    /\ arg = <<>>
    /\ res = <<>>

(***************************************************************************)
(* Script runs                                                             *)
(***************************************************************************)

\* A run started by "Submit Details": the form is handled, and the generate
\* button is not pressed in this run.  The uploader keeps its file.
Submit ==
    /\ pc # "loop"
    /\ \E fields \in FormInputs :
       \E outcome \in InsertResults(fields) :
         LET r == SubmitResult(details_submitted, user_data, fields, outcome)
         IN  /\ details_submitted' = r.details_submitted
             /\ user_data' = r.user_data
             /\ last_submit' =
                  [blank |-> {k \in FieldNames :
                                \A j \in 1..Len(fields[k]) : fields[k][j] \in Whitespace},
                   insert |-> outcome,
                   message |-> r.message]
    /\ NoRun
    /\ UNCHANGED <<upload, fn>>

\* A run started by choosing a file in the empty uploader, which is drawn only
\* inside the gated section: the file is read and the columns are detected.
Upload ==
    /\ pc # "loop"
    /\ MainLogicGate(details_submitted)
    /\ ~excel_file.present
    /\ \E f \in Files :
         LET columns == RenameColumns(f.columns)
         IN  /\ excel_file' = [f EXCEPT !.columns = columns]
             /\ student_col' = DetectStudentCol(columns)
             /\ school_col' = DetectSchoolCol(columns)
    /\ NoRun
    /\ UNCHANGED <<session, fn>>

\* A run started by removing the file from the uploader: "Please upload the
\* Participant List (Excel/CSV) to proceed with generation."
Remove ==
    /\ pc # "loop"
    /\ MainLogicGate(details_submitted)
    /\ excel_file.present
    /\ excel_file' = NoFile
    /\ student_col' = None
    /\ school_col' = None
    /\ NoRun
    /\ UNCHANGED <<session, fn>>

\* A run started by "Generate Certificates and Download Zip", up to the entry
\* of the for loop.
Generate ==
    /\ pc # "loop"
    /\ MainLogicGate(details_submitted)
    /\ excel_file.present
    /\ pc' = "loop"
    /\ i' = 0
    /\ success' = 0
    /\ fail' = 0
    /\ zip' = <<>>
    /\ status' = EmptyStatus
    /\ UNCHANGED <<session, upload, fn>>

\* One iteration of the for loop: iterrows() yields the next row with its
\* label idx.  Line 194 is outside the try: when idx + 1 raises there, the
\* run ends with the exception, before the row is looked at.
ProcessRow ==
    /\ pc = "loop"
    /\ i < Len(excel_file.rows)
    /\ i' = i + 1
    /\ LET idx == excel_file.index[i + 1]
       IN  IF ~CanAddOne(idx)
           THEN /\ pc' = "crashed"
                /\ UNCHANGED <<success, fail, zip, status>>
           ELSE /\ \E fault \in Faults :
                     LET r == RowResult(excel_file.columns, excel_file.rows[i + 1],
                                        idx, student_col, school_col, fault)
                     IN  /\ success' = success + r.success
                         /\ fail' = fail + r.fail
                         /\ zip' = zip \o r.entries
                         /\ status' = r.status
                /\ pc' = pc
    /\ UNCHANGED <<session, upload, fn>>

\* The loop is exhausted: status_placeholder.empty(), the summary
\* "Generation Completed! {success} successful, {fail} failed." and the
\* download button.
Finish ==
    /\ pc = "loop"
    /\ i = Len(excel_file.rows)
    /\ pc' = "summary"
    /\ status' = EmptyStatus
    /\ UNCHANGED <<i, success, fail, zip, session, upload, fn>>

Next == Submit \/ Upload \/ Remove \/ Generate \/ ProcessRow \/ Finish

Spec == Init /\ [][Next]_vars

\* The loop is synchronous code: once entered, it keeps stepping.
FairSpec == Spec /\ WF_vars(ProcessRow) /\ WF_vars(Finish)

(***************************************************************************)
(* The sanitized name as a function of the name cell: a specification that *)
(* draws a cell and carries it through lines 197-201 and 248.              *)
(***************************************************************************)

\* All strings over alphabet of length at most n.
StringsOver(alphabet, n) == UNION {[1..m -> alphabet] : m \in 0..n}

\* The characters of the names drawn: a letter, a digit, "_", space, tab,
\* newline, vertical tab and the nine characters of the regular expression.
NameAlphabet == {"a", "1", "_", " ", "\t", "\n", ""} \cup ReservedChars

\* Everything but arg and res is as at session start.
IdleSession ==
    /\ details_submitted = FALSE
    /\ user_data = EmptyData
    /\ last_submit = NoSubmit
    /\ excel_file = NoFile
    /\ student_col = None
    /\ school_col = None
    /\ pc = "idle"
    /\ i = 0
    /\ success = 0
    /\ fail = 0
    /\ zip = <<>>
    /\ status = EmptyStatus

\* arg = <<raw_student>>: the text of one name cell.
InitSafeName ==
    /\ IdleSession
    /\ arg \in {<<n>> : n \in StringsOver(NameAlphabet, MaxLen)}
    /\ res = <<>>

\* Lines 198-201 and 248: a row whose name is not blank gets
\* res = <<student, safe_name>>.
ApplySafeName ==
    /\ res = <<>>
    /\ ~IsBlankName(Text(arg[1]))
    /\ LET student == strip(arg[1])
       IN  res' = <<student, safe_name(student)>>
    /\ UNCHANGED <<arg, session, upload, run>>

SpecSafeName == InitSafeName /\ [][ApplySafeName]_vars

(***************************************************************************)
(* Properties                                                              *)
(***************************************************************************)

\* The rows of the uploaded list, the name cell of row k (1-based position)
\* and its label.
Rows == excel_file.rows
NameCell(k) == RowGet(excel_file.columns, Rows[k], student_col)
Label(k) == excel_file.index[k]

\* A name or affiliation value that is missing, empty or whitespace-only,
\* stated on the cell itself.
BlankCell(c) == c.na \/ \A j \in 1..Len(c.s) : c.s[j] \in Whitespace

\* The rows yielded so far whose name is blank.
BlankYielded == {k \in 1..i : BlankCell(NameCell(k))}

\* The last submission's insert was called and failed.
InsertFailed == last_submit.insert \in {"error", "empty", "exception"}

\* The last submission had every field filled in and its insert returned data.
InsertSucceeded == last_submit.blank = {} /\ last_submit.insert = "data"

\* C1 as stated: after a failed insert (exception, error response or empty
\* response data) the generation step is still reachable for the dataset that
\* is uploaded.
C1_GenerationAfterFailedInsert ==
    (InsertFailed /\ excel_file.present) => ENABLED Generate

\* C1 as amended: after a failed insert details_submitted is False and the
\* generation step is not reachable, nor is a run in progress or its summary
\* shown; a generation run exists only while the latest submission's insert
\* succeeded.
C1_FailedInsertClosesGeneration ==
    /\ InsertFailed => (~details_submitted /\ ~ENABLED Generate /\ pc = "idle")
    /\ pc # "idle" => InsertSucceeded

\* A list is still in the uploader after a successful insert was followed by
\* a failed one.
C1_Witness ==
    /\ InsertFailed
    /\ excel_file.present
    /\ Len(Rows) > 0
    /\ user_data # EmptyData

\* C2 as stated: in a run, success + fail equals the number of rows the loop
\* has taken so far (each row adds one to exactly one counter), and at the
\* summary it equals the number of rows of the list.
C2_CountersAddUp ==
    /\ pc # "idle" => success + fail = i
    /\ pc = "summary" => success + fail = Len(Rows)

\* C3 as stated: every row taken so far whose name is missing, empty or
\* whitespace-only is counted in fail and in nothing else, has no entry in the
\* archive, and the loop went on after it.
C3_BlankNameSkipped ==
    pc # "idle" =>
        /\ fail >= Cardinality(BlankYielded)
        /\ success <= i - Cardinality(BlankYielded)
        /\ Len(zip) <= i - Cardinality(BlankYielded)
        /\ (i > 0 /\ BlankCell(NameCell(i))) => pc \in {"loop", "summary"}

\* C4 as stated: the name column and the affiliation column are never the
\* same column, and a list with one column has that column for the names and
\* no affiliation column.
C4_ColumnsDistinct ==
    excel_file.present =>
        /\ student_col # school_col
        /\ Len(excel_file.columns) = 1 =>
             (student_col = excel_file.columns[1] /\ school_col = None)

\* C5 as stated: at every point of a run the archive holds as many entries
\* as success counts, and none for a row counted in fail: the entries and the
\* rows counted in fail are together no more than the rows taken.
C5_EntriesAreSuccesses ==
    pc # "idle" =>
        /\ Len(zip) = success
        /\ Len(zip) + fail <= i

\* C6 as stated: within one run, no two entries of the archive have the same
\* name.
C6_EntryNamesDistinct ==
    \A a \in 1..Len(zip) : \A b \in 1..Len(zip) :
        a # b => zip[a].filename # zip[b].filename

\* C7 as stated: the sanitized name has no whitespace character and none of
\* < > : " / \ | ? *; each such character of the trimmed name became one "_",
\* every other character is kept in place.
C7_SafeNameClean ==
    Len(res) = 2 =>
        /\ Len(res[2]) = Len(res[1])
        /\ \A k \in 1..Len(res[2]) :
             /\ res[2][k] \notin (Whitespace \cup ReservedChars)
             /\ res[2][k] = IF res[1][k] \in (Whitespace \cup ReservedChars)
                            THEN "_" ELSE res[1][k]

\* C8 as stated: a row taken by the loop leaves the loop running at the next
\* row, with the row counted, and a run that entered the loop reaches the
\* summary with every row taken and counted.
C8_RunCompletes ==
    /\ [][(pc = "loop" /\ i' = i + 1) =>
            (pc' = "loop" /\ success' + fail' = success + fail + 1)]_vars
    /\ [](pc = "loop" =>
            <>(pc = "summary" /\ i = Len(Rows) /\ success + fail = Len(Rows)))

\* The affiliation cell of row k, or a missing value without a school column.
AffiliationCell(k) ==
    IF school_col = None THEN NaN
    ELSE RowGet(excel_file.columns, Rows[k], school_col)

\* Row k with the cell of column col replaced by c.
RowWith(k, col, c) ==
    [n \in 1..Len(Rows[k]) |->
        IF excel_file.columns[n] = col THEN c ELSE Rows[k][n]]

\* The texts an entry has drawn at a position.
DrawnAt(entry, x, y) ==
    {entry.draws[j].text : j \in {n \in 1..Len(entry.draws) :
                                     entry.draws[n].x = x /\ entry.draws[n].y = y}}

\* C9: for a row with a name, a blank affiliation never makes it fail: under
\* every outcome of the rendering steps the row is counted as it is with an
\* affiliation filled in; a row with a name in which nothing raises is a
\* success; the entry of a success draws the trimmed name, and draws
\* affiliation text if and only if the affiliation is not blank, that text
\* being the trimmed affiliation.
C9_AffiliationOptional ==
    /\ [](excel_file.present =>
            \A k \in 1..Len(Rows) :
              (~BlankCell(NameCell(k)) /\ BlankCell(AffiliationCell(k))) =>
                 \A fault \in Faults :
                    LET r == RowResult(excel_file.columns, Rows[k], Label(k),
                                       student_col, school_col, fault)
                        q == RowResult(excel_file.columns,
                                       RowWith(k, school_col, Text(<<"A">>)),
                                       Label(k), student_col, school_col, fault)
                    IN  r.success = q.success /\ r.fail = q.fail)
    /\ [][(pc = "loop" /\ pc' = "loop" /\ i' = i + 1
            /\ ~BlankCell(NameCell(i + 1)) /\ status'.kind # "warning") =>
            (success' = success + 1 /\ fail' = fail)]_vars
    /\ [][(pc = "loop" /\ success' = success + 1) =>
            /\ Len(zip') = Len(zip) + 1
            /\ DrawnAt(zip'[Len(zip')], student_x, student_y)
                 = {strip(NameCell(i + 1).s)}
            /\ (DrawnAt(zip'[Len(zip')], school_x, school_y) # {})
                 <=> ~BlankCell(AffiliationCell(i + 1))
            /\ DrawnAt(zip'[Len(zip')], school_x, school_y)
                 \subseteq {strip(AffiliationCell(i + 1).s)}]_vars

\* Two rows written to the archive, the first with a missing affiliation and
\* the second with a whitespace-only one, each with the name as its only text.
C9_Witness ==
    /\ pc = "loop"
    /\ i = 2
    /\ school_col # None
    /\ school_col # student_col
    /\ AffiliationCell(1) = NaN
    /\ AffiliationCell(2) = Text(<<" ">>)
    /\ success = 2
    /\ Len(zip) = 2
    /\ Len(zip[1].draws) = 1
    /\ Len(zip[2].draws) = 1

\* C10: details_submitted is True exactly when the latest submission had all
\* five fields filled in and its insert returned data; the upload/generate
\* section is open only while it is True; user_data changes only in a
\* submission whose insert succeeded.
C10_SubmittedFlag ==
    /\ [](details_submitted <=> InsertSucceeded)
    /\ []((pc # "idle" \/ ENABLED Upload \/ ENABLED Remove \/ ENABLED Generate)
            => details_submitted)
    /\ [][user_data' # user_data =>
            (details_submitted' /\ last_submit'.blank = {}
             /\ last_submit'.insert = "data")]_vars

\* A successful submission was followed by one with the last field left
\* blank: the flag is back to False and user_data is kept.
C10_Witness ==
    /\ ~details_submitted
    /\ user_data # EmptyData
    /\ last_submit.blank = {"ic_number"}
    /\ last_submit.insert = "notcalled"

====
